---- MODULE Spec2Model ----
(***************************************************************************)
(* A model of StyleTransfer/style.py: the representation builder           *)
(* (_compute_reprs), the loss and gradient functions, the layer-wise       *)
(* backpropagation driver (style_optfn) and the transfer orchestrator      *)
(* (StyleTransfer.__init__, _rescale_net, transfer_style, get_generated).  *)
(*                                                                         *)
(* Numbers.  Python floats are modelled by exact rationals.  A rational    *)
(* is a pair <<num, den>> with den > 0.  The caffe network and the scipy   *)
(* optimizer are external; the network is a deterministic oracle from the  *)
(* input image to the blobs' activations, the optimizer chooses its trial  *)
(* points and its termination nondeterministically.                        *)
(***************************************************************************)
EXTENDS Integers, Sequences, FiniteSets, TLC

VARIABLES
    \* ---- the StyleTransfer instance and its caffe network
    pc,           \* position: "new", "idle", a phase of transfer_style, "fatal"
    netBlobs,     \* names of net.blobs, in the network's order
    netShape,     \* net.blobs["data"].shape, <<1, 3, h, w>>
    tinputs,      \* transformer.inputs["data"]
    netData,      \* net.blobs["data"].data[0], an array [c, h, w, px] or None
    layers,       \* self.layers
    grad_iter,    \* self.grad_iter
    \* ---- the arguments and locals of the running transfer_style call
    img_style, img_content, length, n_iter, orig_dim, gram_scale,
    G_style, F_content, img0, data_bounds, res,
    \* ---- scipy.optimize.minimize(method="L-BFGS-B")
    opt,          \* [x, trial, nit, nfev, task]
    \* ---- observations
    hist,         \* [phases, forwards, reshapes, reported, calls]
    \* ---- one evaluation of style_optfn on a layer stack
    fn,
    \* ---- one application of _compute_reprs
    rp,
    \* ---- one computation of the rescale factors
    rs

vars == <<pc, netBlobs, netShape, tinputs, netData, layers, grad_iter,
          img_style, img_content, length, n_iter, orig_dim, gram_scale,
          G_style, F_content, img0, data_bounds, res, opt, hist, fn, rp, rs>>

xferVars == <<pc, netBlobs, netShape, tinputs, netData, layers, grad_iter,
              img_style, img_content, length, n_iter, orig_dim, gram_scale,
              G_style, F_content, img0, data_bounds, res, opt, hist>>

(***************************************************************************)
(* Bounds of the model.                                                    *)
(***************************************************************************)
MaxSide == 4       \* image sides of the rescale specification are 1..MaxSide
MaxLength == 2     \* the caller's length is 1..MaxLength
MaxOrigDim == 2    \* the network's default input side is 1..MaxOrigDim
MaxIter == 2       \* n_iter is 1..MaxIter
MaxEvals == 3      \* objective evaluations of one minimize() call
MaxCalls == 2      \* transfer_style calls on one instance
MaxLayers == 3     \* length of the layer stack handed to style_optfn
MaxRuns == 2       \* successive style_optfn evaluations on one network

(***************************************************************************)
(* Program constants.                                                      *)
(***************************************************************************)
\* STYLE_SCALE = 1.2 = STYLE_SCALE_NUM / STYLE_SCALE_DEN
STYLE_SCALE_NUM == 6
STYLE_SCALE_DEN == 5
\* transformer.set_raw_scale("data", 255)
RAW_SCALE == 255
\* weights = {"content": {"conv4_2": 1}, "style": {"conv1_1": 0.2, ...}}:
\* 0.2 = 1 / STYLE_WEIGHT_DEN
STYLE_WEIGHT_DEN == 5

(***************************************************************************)
(* Arithmetic helpers.                                                     *)
(***************************************************************************)
Min(a, b) == IF a <= b THEN a ELSE b
Max(a, b) == IF a >= b THEN a ELSE b

RECURSIVE Sum(_, _)
\* f[1] + ... + f[n]
Sum(f, n) == IF n = 0 THEN 0 ELSE f[n] + Sum(f, n - 1)

\* numpy.round of the rational n/d: half to even
RoundHalfEven(n, d) ==
    LET q == n \div d
        r == n % d
    IN  IF 2 * r < d THEN q
        ELSE IF 2 * r > d THEN q + 1
        ELSE IF q % 2 = 0 THEN q ELSE q + 1

\* [x] * n
Replicate(x, n) == [i \in 1..n |-> x]

(***************************************************************************)
(* Images and arrays.  An image is [h, w, px]: shape (h, w, 3) and an      *)
(* identifier px of its pixel contents.  A network input is [c, h, w, px]: *)
(* shape (c, h, w).                                                        *)
(***************************************************************************)
ImageSize(img) == img.h * img.w * 3
ArraySize(a) == a.c * a.h * a.w

\* The scale transfer_style computes for an image (style.py:229-230 and
\* 232-233): max(length / max side, orig_dim / min side), a rational.
ScaleMin(len, odim, img) ==
    LET M == Max(img.h, img.w)
        m == Min(img.h, img.w)
    IN  IF len * m <= odim * M THEN <<len, M>> ELSE <<odim, m>>

Scale(len, odim, img) ==
    LET M == Max(img.h, img.w)
        m == Min(img.h, img.w)
    IN  IF len * m >= odim * M THEN <<len, M>> ELSE <<odim, m>>

\* STYLE_SCALE * scale
StyleFactor(len, odim, img) ==
    LET s == Scale(len, odim, img)
    IN  <<STYLE_SCALE_NUM * s[1], STYLE_SCALE_DEN * s[2]>>

\* skimage.transform.rescale(img, f): rows and columns are round(f * side)
rescale(img, f) ==
    [h |-> RoundHalfEven(f[1] * img.h, f[2]),
     w |-> RoundHalfEven(f[1] * img.w, f[2]),
     px |-> img.px]

(***************************************************************************)
(* The rescale factors as a pure function of bounded inputs.               *)
(***************************************************************************)
NoImage == [h |-> 0, w |-> 0, px |-> 0]
NoArray == [c |-> 0, h |-> 0, w |-> 0, px |-> 0]

RsInit ==
    \E H \in 1..MaxSide, W \in 1..MaxSide, L \in 1..MaxLength, D \in 1..MaxOrigDim :
        rs = [on |-> TRUE, done |-> FALSE, img |-> [h |-> H, w |-> W, px |-> 1],
              length |-> L, orig_dim |-> D, factor |-> <<0, 1>>, out |-> NoImage]

RsIdle ==
    rs = [on |-> FALSE, done |-> FALSE, img |-> NoImage, length |-> 0, orig_dim |-> 0,
          factor |-> <<0, 1>>, out |-> NoImage]

\* style.py:229-231 on the style image
ComputeStyleRescale ==
    /\ rs.on /\ ~rs.done
    /\ rs' = [rs EXCEPT !.done = TRUE,
                        !.factor = StyleFactor(rs.length, rs.orig_dim, rs.img),
                        !.out = rescale(rs.img, StyleFactor(rs.length, rs.orig_dim, rs.img))]
    /\ UNCHANGED <<xferVars, fn, rp>>

(***************************************************************************)
(* Exact rationals <<num, den>>, kept normalised (den > 0, lowest terms).  *)
(***************************************************************************)
Abs(a) == IF a < 0 THEN -a ELSE a

RECURSIVE GCD(_, _)
GCD(a, b) == IF b = 0 THEN a ELSE GCD(b, a % b)

RNorm(n, d) ==
    LET g == GCD(Abs(n), Abs(d))
        s == IF d < 0 THEN -1 ELSE 1
    IN  IF n = 0 THEN <<0, 1>> ELSE <<s * (n \div g), s * (d \div g)>>

RZero == <<0, 1>>
RInt(a) == <<a, 1>>
RAdd(p, q) == RNorm(p[1] * q[2] + q[1] * p[2], p[2] * q[2])
RMul(p, q) == RNorm(p[1] * q[1], p[2] * q[2])

(***************************************************************************)
(* Matrices (a sequence of rows) and tensors of shape (a, b, c).           *)
(***************************************************************************)
Rows(A) == Len(A)
Cols(A) == IF Len(A) = 0 THEN 0 ELSE Len(A[1])

Transpose(A) == [j \in 1..Cols(A) |-> [i \in 1..Rows(A) |-> A[i][j]]]

\* the matrix product A . B of integer matrices
MatMul(A, B) ==
    [i \in 1..Rows(A) |-> [j \in 1..Cols(B) |->
        Sum([k \in 1..Cols(A) |-> A[i][k] * B[k][j]], Cols(A))]]

\* scipy.linalg.blas.sgemm(alpha, A, B) = alpha * A . B
sgemm(alpha, A, B) ==
    [i \in 1..Rows(A) |-> [j \in 1..Cols(B) |-> alpha * MatMul(A, B)[i][j]]]

\* numpy.reshape of a tensor of shape (a, b, c) to (a, b * c), in C order
Reshape2(T) ==
    LET b == Len(T[1])
        c == Len(T[1][1])
    IN  [ch \in 1..Len(T) |-> [j \in 1..(b * c) |->
            T[ch][((j - 1) \div c) + 1][((j - 1) % c) + 1]]]

\* numpy.reshape of a matrix of shape (a, b * c) to (a, b, c), in C order
Reshape3(M, b, c) ==
    [ch \in 1..Len(M) |-> [r \in 1..b |-> [col \in 1..c |-> M[ch][(r - 1) * c + col]]]]

\* the sum of the entries of an integer matrix
MatSum(A) == Sum([i \in 1..Rows(A) |-> Sum(A[i], Cols(A))], Rows(A))

(***************************************************************************)
(* The network as an oracle.  VGGBlobs is the blob order of the VGG16      *)
(* deploy network restricted to the blobs the program names, with its      *)
(* neighbours; BlobIndex is a blob's depth.  After forward() on the input  *)
(* net_in, blob `layer` holds BlobData(layer, net_in), of shape (2, h, w), *)
(* with non-negative entries (the blobs are rectified in place).           *)
(***************************************************************************)
VGGBlobs == <<"data", "conv1_1", "conv1_2", "conv2_1", "conv3_1",
              "conv4_1", "conv4_2", "conv5_1", "pool5">>

BlobIndex(layer) == CHOOSE i \in 1..Len(VGGBlobs) : VGGBlobs[i] = layer

BlobData(layer, net_in) ==
    [ch \in 1..2 |-> [r \in 1..net_in.h |-> [col \in 1..net_in.w |->
        (BlobIndex(layer) + ch * net_in.px + r + 2 * col) % 3]]]

SeqToSet(s) == {s[i] : i \in 1..Len(s)}

(***************************************************************************)
(* _compute_reprs (style.py:45-75).  layers_style and layers_content are   *)
(* the key lists, as sets.  A mapping is a function on its key set; the    *)
(* empty mapping is <<>>.  net.blobs[layer] of a name the network lacks    *)
(* raises KeyError: err.                                                   *)
(***************************************************************************)
ReprsContentOnly(net_in, blobs, layers_style, layers_content, scale) ==
    LET all == layers_style \cup layers_content
        f_sc(layer) == Reshape2(BlobData(layer, net_in))
    IN  IF \E layer \in all : layer \notin SeqToSet(blobs)
        THEN [err |-> TRUE, repr_s |-> <<>>, repr_c |-> <<>>]
        ELSE [err |-> FALSE,
              repr_s |-> [layer \in layers_style |->
                             sgemm(scale, f_sc(layer), Transpose(f_sc(layer)))],
              repr_c |-> [layer \in layers_content |-> f_sc(layer)]]

ReprsSkipUnknown(net_in, blobs, layers_style, layers_content, scale) ==
    LET known_s == layers_style \cap SeqToSet(blobs)
        known_c == layers_content \cap SeqToSet(blobs)
        f_sc(layer) == Reshape2(BlobData(layer, net_in))
    IN  [err |-> FALSE,
         repr_s |-> [layer \in known_s |->
                        sgemm(scale, f_sc(layer), Transpose(f_sc(layer)))],
         repr_c |-> [layer \in known_s \cup known_c |-> f_sc(layer)]]

_compute_reprs(net_in, blobs, layers_style, layers_content, scale) ==
    LET all == layers_style \cup layers_content
        f_sc(layer) == Reshape2(BlobData(layer, net_in))
    IN  IF \E layer \in all : layer \notin SeqToSet(blobs)
        THEN [err |-> TRUE, repr_s |-> <<>>, repr_c |-> <<>>]
        ELSE [err |-> FALSE,
              repr_s |-> [layer \in layers_style |->
                             sgemm(scale, f_sc(layer), Transpose(f_sc(layer)))],
              repr_c |-> [layer \in all |-> f_sc(layer)]]

\* The layers the program weights, in the network's order
WeightedLayers == <<"conv1_1", "conv2_1", "conv3_1", "conv4_1", "conv4_2", "conv5_1">>

(***************************************************************************)
(* _compute_reprs as a pure function of bounded inputs.                    *)
(***************************************************************************)
RpLayerSet == {WeightedLayers[i] : i \in 1..MaxLayers}

NoReprs == [err |-> FALSE, repr_s |-> <<>>, repr_c |-> <<>>]

RpInit ==
    \E ls \in SUBSET RpLayerSet, lc \in SUBSET RpLayerSet, p \in 1..2 :
        rp = [on |-> TRUE, done |-> FALSE,
              net_in |-> [c |-> 3, h |-> 1, w |-> 2, px |-> p],
              layers_style |-> ls, layers_content |-> lc, out |-> NoReprs]

RpIdle ==
    rp = [on |-> FALSE, done |-> FALSE, net_in |-> NoArray,
          layers_style |-> {}, layers_content |-> {}, out |-> NoReprs]

ApplyComputeReprs ==
    /\ rp.on /\ ~rp.done
    /\ rp' = [rp EXCEPT !.done = TRUE,
                        !.out = _compute_reprs(rp.net_in, VGGBlobs, rp.layers_style,
                                               rp.layers_content, 1)]
    /\ UNCHANGED <<xferVars, fn, rs>>

(***************************************************************************)
(* Tensors of rationals: the gradient buffers net.blobs[layer].diff[0].    *)
(***************************************************************************)
TZero(a, b, c) == [ch \in 1..a |-> [r \in 1..b |-> [col \in 1..c |-> RZero]]]
TFill(a, b, c, q) == [ch \in 1..a |-> [r \in 1..b |-> [col \in 1..c |-> q]]]

TAdd(T, U) ==
    [ch \in 1..Len(T) |-> [r \in 1..Len(T[1]) |-> [col \in 1..Len(T[1][1]) |->
        RAdd(T[ch][r][col], U[ch][r][col])]]]

TScale(q, T) ==
    [ch \in 1..Len(T) |-> [r \in 1..Len(T[1]) |-> [col \in 1..Len(T[1][1]) |->
        RMul(q, T[ch][r][col])]]]

\* numpy flatten of a tensor of shape (a, b, c), in C order
Flatten(T) ==
    LET b == Len(T[1])
        c == Len(T[1][1])
    IN  [k \in 1..(Len(T) * b * c) |->
            T[((k - 1) \div (b * c)) + 1][(((k - 1) % (b * c)) \div c) + 1][((k - 1) % c) + 1]]

(***************************************************************************)
(* _compute_style_grad (style.py:17-27): loss and gradient of one style    *)
(* layer.  c = Fl.shape[0]**-2 * Fl.shape[1]**-2.                          *)
(***************************************************************************)
_compute_style_grad(F, G, G_style_, layer) ==
    LET Fl == F[layer]
        Gl == G[layer]
        cden == Rows(Fl) * Rows(Fl) * Cols(Fl) * Cols(Fl)
        El == [i \in 1..Rows(Gl) |-> [j \in 1..Cols(Gl) |-> Gl[i][j] - G_style_[layer][i][j]]]
        sq == [i \in 1..Rows(El) |-> [j \in 1..Cols(El) |-> El[i][j] * El[i][j]]]
        EF == sgemm(1, El, Fl)
    IN  [loss |-> RNorm(MatSum(sq), 4 * cden),
         grad |-> [i \in 1..Rows(Fl) |-> [j \in 1..Cols(Fl) |->
                     IF Fl[i][j] > 0 THEN RNorm(EF[i][j], cden) ELSE RZero]]]

(***************************************************************************)
(* _compute_content_grad (style.py:30-42).                                 *)
(***************************************************************************)
_compute_content_grad(F, F_content_, layer) ==
    LET Fl == F[layer]
        El == [i \in 1..Rows(Fl) |-> [j \in 1..Cols(Fl) |-> Fl[i][j] - F_content_[layer][i][j]]]
        sq == [i \in 1..Rows(El) |-> [j \in 1..Cols(El) |-> El[i][j] * El[i][j]]]
    IN  [loss |-> RNorm(MatSum(sq), 2),
         grad |-> [i \in 1..Rows(Fl) |-> [j \in 1..Cols(Fl) |->
                     IF Fl[i][j] > 0 THEN RInt(El[i][j]) ELSE RZero]]]

(***************************************************************************)
(* net.backward(start, end), as an oracle: a linear map of the start       *)
(* blob's gradient buffer, which overwrites the buffer of the blob it      *)
(* reaches: blob `end`, or the data blob (3 channels) when end is None.    *)
(***************************************************************************)
NoLayer == "None"

Jacobian(start, end) ==
    IF end = NoLayer THEN BlobIndex(start) ELSE BlobIndex(start) - BlobIndex(end) + 1

BackwardTo(start, end, buf) ==
    LET nch == IF end = NoLayer THEN 3 ELSE Len(buf)
    IN  [ch \in 1..nch |-> [r \in 1..Len(buf[1]) |-> [col \in 1..Len(buf[1][1]) |->
            RMul(RInt(Jacobian(start, end)), buf[((ch - 1) % Len(buf)) + 1][r][col])]]]

(***************************************************************************)
(* style_optfn (style.py:78-131), one step at a time.                      *)
(***************************************************************************)
\* reversed(layers)[i], the layer visited at step i = 0, 1, ...
VisitedForward(lays, i) == lays[i + 1]
Visited(lays, i) == lays[Len(lays) - i]

\* style.py:109
next_layer(lays, i) == IF i = Len(lays) - 1 THEN NoLayer ELSE lays[Len(lays) - i - 1]

\* style.py:107: net.blobs[layers[-1]].diff[:] = 0
KeepLastDiff(diff, lays) == diff
ZeroLastDiff(diff, lays) ==
    LET old == diff[lays[Len(lays)]]
    IN  [diff EXCEPT ![lays[Len(lays)]] = TZero(Len(old), Len(old[1]), Len(old[1][1]))]

\* style.py:110-122: the loss and gradient contributions of one layer, given
\* the layer's gradient buffer buf; weights are rationals
Contribution(layer, buf, F, G, reprs, weights, ratio) ==
    LET b == Len(buf[1])
        c == Len(buf[1][1])
        isS == layer \in DOMAIN weights.style
        isC == layer \in DOMAIN weights.content
        sg == _compute_style_grad(F, G, reprs.G_style, layer)
        cg == _compute_content_grad(F, reprs.F_content, layer)
        sLoss == IF isS THEN RMul(RMul(weights.style[layer], sg.loss), RInt(ratio)) ELSE RZero
        cLoss == IF isC THEN RMul(weights.content[layer], cg.loss) ELSE RZero
        buf1 == IF isS
                THEN TAdd(buf, TScale(RMul(weights.style[layer], RInt(ratio)),
                                      Reshape3(sg.grad, b, c)))
                ELSE buf
        buf2 == IF isC
                THEN TAdd(buf1, TScale(weights.content[layer], Reshape3(cg.grad, b, c)))
                ELSE buf1
    IN  [loss |-> RAdd(sLoss, cLoss), buf |-> buf2]

FnShape == [c |-> 3, h |-> 1, w |-> 2]

FnIdle ==
    fn = [on |-> FALSE, pc |-> "idle", layers |-> <<>>, weights |-> [style |-> <<>>, content |-> <<>>],
          ratio |-> 0, reprs |-> [G_style |-> <<>>, F_content |-> <<>>],
          x |-> 0, data |-> NoArray, G |-> <<>>, F |-> <<>>, diff |-> <<>>,
          dataDiff |-> <<>>, loss |-> RZero, i |-> 0, log |-> <<>>,
          ret |-> [loss |-> RZero, grad |-> <<>>], runs |-> 0, stale |-> FALSE]

\* The arguments of style_optfn: a stack of 1..MaxLayers layers, each weighted
\* for style, for content or for both, targets built as transfer_style builds
\* them, and a network whose gradient buffers are zero (as constructed) or
\* hold what earlier backward passes left.
FnInit ==
    \E n \in 1..MaxLayers, ratio \in {1, 3}, stale \in {0, 7} :
      \E ls \in SUBSET {WeightedLayers[k] : k \in 1..n},
         lc \in SUBSET {WeightedLayers[k] : k \in 1..n} :
        /\ ls \cup lc = {WeightedLayers[k] : k \in 1..n}
        /\ fn = [on |-> TRUE, pc |-> "idle",
                 layers |-> [k \in 1..n |-> WeightedLayers[k]],
                 weights |-> [style |-> [l \in ls |-> <<1, STYLE_WEIGHT_DEN>>],
                              content |-> [l \in lc |-> <<1, 1>>]],
                 ratio |-> ratio,
                 reprs |-> [G_style |->
                               _compute_reprs([c |-> 3, h |-> 2, w |-> 1, px |-> 0],
                                              VGGBlobs, ls, {}, 1).repr_s,
                            F_content |->
                               _compute_reprs([c |-> 3, h |-> FnShape.h, w |-> FnShape.w, px |-> 1],
                                              VGGBlobs, {}, lc, 1).repr_c],
                 x |-> 0, data |-> NoArray, G |-> <<>>, F |-> <<>>,
                 diff |-> [l \in {WeightedLayers[k] : k \in 1..n} |->
                              TFill(2, FnShape.h, FnShape.w, RInt(stale))],
                 dataDiff |-> TFill(3, FnShape.h, FnShape.w, RInt(stale)),
                 loss |-> RZero, i |-> 0, log |-> <<>>,
                 ret |-> [loss |-> RZero, grad |-> <<>>], runs |-> 0, stale |-> FALSE]

\* style.py:95-107
OptfnBegin ==
    /\ fn.on /\ fn.pc = "idle" /\ fn.runs < MaxRuns
    /\ \E x \in 1..2 :
         LET net_in == [c |-> FnShape.c, h |-> FnShape.h, w |-> FnShape.w, px |-> x]
             r == _compute_reprs(net_in, VGGBlobs, DOMAIN fn.weights.style,
                                 DOMAIN fn.weights.content, 1)
         IN  fn' = [fn EXCEPT !.pc = "accum", !.x = x, !.data = net_in,
                              !.G = r.repr_s, !.F = r.repr_c, !.loss = RZero,
                              !.diff = ZeroLastDiff(fn.diff, fn.layers),
                              !.i = 0, !.log = <<>>,
                              !.stale = \E l \in DOMAIN fn.diff :
                                           fn.diff[l] # TZero(2, FnShape.h, FnShape.w)]
    /\ UNCHANGED <<xferVars, rp, rs>>

\* style.py:108-122, one iteration of the loop up to the backward call
OptfnAccumulate ==
    /\ fn.on /\ fn.pc = "accum"
    /\ LET layer == Visited(fn.layers, fn.i)
           cb == Contribution(layer, fn.diff[layer], fn.F, fn.G, fn.reprs,
                              fn.weights, fn.ratio)
       IN  fn' = [fn EXCEPT !.pc = "back",
                            !.loss = RAdd(fn.loss, cb.loss),
                            !.diff = [fn.diff EXCEPT ![layer] = cb.buf],
                            !.log = Append(fn.log, [op |-> "add", layer |-> layer, end |-> NoLayer])]
    /\ UNCHANGED <<xferVars, rp, rs>>

\* style.py:124-128, the backward call ending the iteration
OptfnBackward ==
    /\ fn.on /\ fn.pc = "back"
    /\ LET layer == Visited(fn.layers, fn.i)
           nxt == next_layer(fn.layers, fn.i)
           out == BackwardTo(layer, nxt, fn.diff[layer])
       IN  fn' = [fn EXCEPT !.pc = IF fn.i + 1 = Len(fn.layers) THEN "ret" ELSE "accum",
                            !.diff = IF nxt = NoLayer THEN fn.diff
                                     ELSE [fn.diff EXCEPT ![nxt] = out],
                            !.dataDiff = IF nxt = NoLayer THEN out ELSE fn.dataDiff,
                            !.i = fn.i + 1,
                            !.log = Append(fn.log, [op |-> "backward", layer |-> layer, end |-> nxt])]
    /\ UNCHANGED <<xferVars, rp, rs>>

\* style.py:130-131
OptfnReturn ==
    /\ fn.on /\ fn.pc = "ret"
    /\ fn' = [fn EXCEPT !.pc = "idle", !.runs = fn.runs + 1,
                        !.ret = [loss |-> fn.loss, grad |-> Flatten(fn.dataDiff)]]
    /\ UNCHANGED <<xferVars, rp, rs>>

(***************************************************************************)
(* The StyleTransfer instance (style.py:134-271).                          *)
(***************************************************************************)
\* np.load(mean_file).mean(1).mean(1): the per-channel mean of the network's
\* training data
MeanData == <<104, 117, 123>>

\* weights of __init__ (style.py:149-154), as rationals
Weights ==
    [content |-> [l \in {"conv4_2"} |-> <<1, 1>>],
     style |-> [l \in {"conv1_1", "conv2_1", "conv3_1", "conv4_1", "conv5_1"} |->
                   <<1, STYLE_WEIGHT_DEN>>]]

WeightKeys == DOMAIN Weights.style \cup DOMAIN Weights.content

\* The model file is external: the network has every blob of VGGBlobs, or
\* lacks one of the weighted ones.
Without(seq, name) == SelectSeq(seq, LAMBDA b : b # name)
NetBlobChoices == {VGGBlobs} \cup {Without(VGGBlobs, l) : l \in WeightKeys}

\* style.py:160-163: the network's blobs that carry a weight, in network order
SelfLayers(blobs) == SelectSeq(blobs, LAMBDA b : b \in WeightKeys)

\* images handed to transfer_style: px 1 is the style picture, px 2 the
\* content picture
StyleImages == {[h |-> 1, w |-> 2, px |-> 1], [h |-> 2, w |-> 2, px |-> 1]}
ContentImages == {[h |-> 2, w |-> 1, px |-> 2], [h |-> 2, w |-> 2, px |-> 2]}

\* caffe.io.Transformer.preprocess("data", img): resize to the transformer's
\* input dimensions, transpose (h, w, 3) to (3, h, w), swap channels, scale,
\* subtract the mean
preprocess(img, tin) == [c |-> tin[2], h |-> tin[3], w |-> tin[4], px |-> img.px]

\* caffe.io.Transformer.deprocess("data", data): the inverse, (3, h, w) to (h, w, 3)
deprocess(arr) == [h |-> arr.h, w |-> arr.w, px |-> arr.px]

\* StyleTransfer.get_generated (style.py:195-204)
get_generated == deprocess(netData)

\* StyleTransfer._rescale_net (style.py:206-213): new_dims
KeepDims(img, shape) == shape
_rescale_net(img, shape) == <<1, 3, img.h, img.w>>

\* x.reshape(shape): the flattened array x as an array of that shape
ReshapeArray(x, shape) == [c |-> shape[1], h |-> shape[2], w |-> shape[3], px |-> x.px]

\* style.py:251-255: the bounds list, one (min, max) pair per scalar
DataBoundsPixelMajor(arr) ==
    LET data_min == [k \in 1..3 |-> -MeanData[k]]
        data_max == [k \in 1..3 |-> data_min[k] + RAW_SCALE]
    IN  [i \in 1..(3 * (ArraySize(arr) \div 3)) |->
            <<data_min[((i - 1) % 3) + 1], data_max[((i - 1) % 3) + 1]>>]

DataBounds(arr) ==
    LET data_min == [k \in 1..3 |-> -MeanData[k]]
        data_max == [k \in 1..3 |-> data_min[k] + RAW_SCALE]
    IN  Replicate(<<data_min[1], data_max[1]>>, ArraySize(arr) \div 3)
        \o Replicate(<<data_min[2], data_max[2]>>, ArraySize(arr) \div 3)
        \o Replicate(<<data_min[3], data_max[3]>>, ArraySize(arr) \div 3)

NoOpt == [x |-> NoArray, last |-> NoArray, nit |-> 0, nfev |-> 0]
NoHist == [phases |-> <<>>, forwards |-> 0, rescales |-> 0, reshapes |-> {}, reported |-> 0]

LocalsReset ==
    /\ gram_scale' = <<0, 1>>
    /\ G_style' = <<>>
    /\ F_content' = <<>>
    /\ img0' = NoArray
    /\ data_bounds' = <<>>
    /\ res' = 0
    /\ opt' = NoOpt

XferIdle ==
    /\ pc = "off"
    /\ netBlobs = <<>>
    /\ netShape = <<1, 3, 0, 0>>
    /\ tinputs = <<1, 3, 0, 0>>
    /\ netData = NoArray
    /\ layers = <<>>
    /\ grad_iter = 0
    /\ img_style = NoImage /\ img_content = NoImage
    /\ length = 0 /\ n_iter = 0 /\ orig_dim = 0
    /\ gram_scale = <<0, 1>>
    /\ G_style = <<>> /\ F_content = <<>>
    /\ img0 = NoArray /\ data_bounds = <<>> /\ res = 0
    /\ opt = NoOpt
    /\ hist = NoHist @@ [calls |-> 0]

\* Before StyleTransfer(): the model file fixes the network's blobs and its
\* square input
XferInit ==
    /\ pc = "new"
    /\ netBlobs \in NetBlobChoices
    /\ \E d \in 1..MaxOrigDim : netShape = <<1, 3, d, d>>
    /\ tinputs = netShape
    /\ netData = NoArray
    /\ layers = <<>>
    /\ grad_iter = 0
    /\ img_style = NoImage /\ img_content = NoImage
    /\ length = 0 /\ n_iter = 0 /\ orig_dim = 0
    /\ gram_scale = <<0, 1>>
    /\ G_style = <<>> /\ F_content = <<>>
    /\ img0 = NoArray /\ data_bounds = <<>> /\ res = 0
    /\ opt = NoOpt
    /\ hist = NoHist @@ [calls |-> 0]

\* StyleTransfer.__init__ (style.py:138-163)
Construct ==
    /\ pc = "new"
    /\ pc' = "idle"
    /\ grad_iter' = 0
    /\ layers' = SelfLayers(netBlobs)
    /\ UNCHANGED <<netBlobs, netShape, tinputs, netData, img_style, img_content,
                   length, n_iter, orig_dim, gram_scale, G_style, F_content, img0,
                   data_bounds, res, opt, hist, fn, rp, rs>>

\* transfer_style is called (style.py:215-227)
Call ==
    /\ pc \in {"idle", "DONE"}
    /\ hist.calls < MaxCalls
    /\ img_style' \in StyleImages
    /\ img_content' \in ContentImages
    /\ length' \in 1..MaxLength
    /\ n_iter' \in 1..MaxIter
    /\ orig_dim' = Min(netShape[3], netShape[4])
    /\ LocalsReset
    /\ hist' = [NoHist EXCEPT !.phases = <<"INIT">>] @@ [calls |-> hist.calls + 1]
    /\ pc' = "RESCALE_STYLE"
    /\ UNCHANGED <<netBlobs, netShape, tinputs, netData, layers, grad_iter, fn, rp, rs>>

\* style.py:229-231
RescaleStyle ==
    /\ pc = "RESCALE_STYLE"
    /\ img_style' = rescale(img_style, StyleFactor(length, orig_dim, img_style))
    /\ hist' = [hist EXCEPT !.phases = Append(@, "RESCALE_STYLE")]
    /\ pc' = "RESCALE_CONTENT"
    /\ UNCHANGED <<netBlobs, netShape, tinputs, netData, layers, grad_iter, img_content,
                   length, n_iter, orig_dim, gram_scale, G_style, F_content, img0,
                   data_bounds, res, opt, fn, rp, rs>>

\* style.py:232-234
RescaleContent ==
    /\ pc = "RESCALE_CONTENT"
    /\ img_content' = rescale(img_content, Scale(length, orig_dim, img_content))
    /\ hist' = [hist EXCEPT !.phases = Append(@, "RESCALE_CONTENT")]
    /\ pc' = "BUILD_STYLE_TARGET"
    /\ UNCHANGED <<netBlobs, netShape, tinputs, netData, layers, grad_iter, img_style,
                   length, n_iter, orig_dim, gram_scale, G_style, F_content, img0,
                   data_bounds, res, opt, fn, rp, rs>>

\* style.py:239
GramScale(content, style) == <<ImageSize(content), ImageSize(style)>>

\* style.py:240-241: the gram_scale argument handed to _compute_reprs
GramScaleArg == 1

\* style.py:236-241.  net.blobs["data"].data[0] = net_in and net.forward()
\* precede the loop over the layers, where an unknown layer raises.
BuildStyleTarget ==
    /\ pc = "BUILD_STYLE_TARGET"
    /\ LET dims == _rescale_net(img_style, netShape)
           net_in == preprocess(img_style, dims)
           r == _compute_reprs(net_in, netBlobs, DOMAIN Weights.style, {}, GramScaleArg)
       IN  /\ netShape' = dims
           /\ tinputs' = dims
           /\ gram_scale' = GramScale(img_content, img_style)
           /\ netData' = net_in
           /\ hist' = [hist EXCEPT !.phases = Append(@, "BUILD_STYLE_TARGET"),
                                   !.forwards = @ + 1, !.rescales = @ + 1]
           /\ G_style' = r.repr_s
           /\ pc' = IF r.err THEN "fatal" ELSE "BUILD_CONTENT_TARGET"
    /\ UNCHANGED <<netBlobs, layers, grad_iter, img_style, img_content, length, n_iter,
                   orig_dim, F_content, img0, data_bounds, res, opt, fn, rp, rs>>

\* style.py:243-246
BuildContentTarget ==
    /\ pc = "BUILD_CONTENT_TARGET"
    /\ LET dims == _rescale_net(img_content, netShape)
           net_in == preprocess(img_content, dims)
           r == _compute_reprs(net_in, netBlobs, {}, DOMAIN Weights.content, 1)
       IN  /\ netShape' = dims
           /\ tinputs' = dims
           /\ netData' = net_in
           /\ hist' = [hist EXCEPT !.phases = Append(@, "BUILD_CONTENT_TARGET"),
                                   !.forwards = @ + 1, !.rescales = @ + 1]
           /\ F_content' = r.repr_c
           /\ pc' = IF r.err THEN "fatal" ELSE "SEED"
    /\ UNCHANGED <<netBlobs, layers, grad_iter, img_style, img_content, length, n_iter,
                   orig_dim, gram_scale, G_style, img0, data_bounds, res, opt, fn, rp, rs>>

\* style.py:249
Seed ==
    /\ pc = "SEED"
    /\ img0' = preprocess(img_content, tinputs)
    /\ hist' = [hist EXCEPT !.phases = Append(@, "SEED")]
    /\ pc' = "BOUND"
    /\ UNCHANGED <<netBlobs, netShape, tinputs, netData, layers, grad_iter, img_style,
                   img_content, length, n_iter, orig_dim, gram_scale, G_style, F_content,
                   data_bounds, res, opt, fn, rp, rs>>

\* style.py:251-263, and minimize() is entered with x0 = img0.flatten()
Bound ==
    /\ pc = "BOUND"
    /\ data_bounds' = DataBounds(img0)
    /\ opt' = [x |-> img0, last |-> NoArray, nit |-> 0, nfev |-> 0]
    /\ hist' = [hist EXCEPT !.phases = Append(@, "BOUND")]
    /\ pc' = "OPTIMIZE"
    /\ UNCHANGED <<netBlobs, netShape, tinputs, netData, layers, grad_iter, img_style,
                   img_content, length, n_iter, orig_dim, gram_scale, G_style, F_content,
                   img0, res, fn, rp, rs>>

(***************************************************************************)
(* scipy.optimize.minimize(style_optfn, x0, method="L-BFGS-B", jac=True,   *)
(* callback=callback, options={"maxiter": n_iter}) (style.py:270).  The    *)
(* first evaluation is at x0; every later one is at a trial point of the   *)
(* line search.  A trial point is accepted as the new iterate (the         *)
(* callback runs and the iteration count grows), or the search goes on,    *)
(* or the line search fails and the iterate before it is restored.  The    *)
(* run ends at maxiter iterations, on convergence at an iterate, or with   *)
(* the failed line search.  opt.x is the iterate, opt.last the point of    *)
(* the last evaluation.                                                    *)
(***************************************************************************)
\* one call of style_optfn by the optimizer: style.py:97 reshapes x to the
\* network's input shape and _compute_reprs (style.py:57-58) loads it and
\* runs forward
OptEvaluate ==
    /\ pc = "OPTIMIZE"
    /\ opt.nfev < MaxEvals
    /\ LET x == IF opt.nfev = 0 THEN opt.x
                ELSE [opt.x EXCEPT !.px = img0.px + opt.nfev]
           net_in == ReshapeArray(x, <<netShape[2], netShape[3], netShape[4]>>)
       IN  /\ netData' = net_in
           /\ opt' = [opt EXCEPT !.last = x, !.nfev = @ + 1]
           /\ hist' = [hist EXCEPT !.forwards = @ + 1,
                                   !.reshapes = @ \cup {<<net_in.c, net_in.h, net_in.w>>},
                                   !.phases = IF opt.nfev = 0 THEN Append(@, "OPTIMIZE") ELSE @]
    /\ UNCHANGED <<pc, netBlobs, netShape, tinputs, layers, grad_iter, img_style,
                   img_content, length, n_iter, orig_dim, gram_scale, G_style, F_content,
                   img0, data_bounds, res, fn, rp, rs>>

\* style.py:266-268: callback(xk)
callback(g) == g + 1

\* the trial point is accepted: callback, and the run ends at maxiter
OptNewX ==
    /\ pc = "OPTIMIZE"
    /\ opt.nfev >= 2
    /\ opt.last # opt.x
    /\ opt' = [opt EXCEPT !.x = opt.last, !.nit = @ + 1]
    /\ grad_iter' = callback(grad_iter)
    /\ hist' = [hist EXCEPT !.reported = callback(grad_iter)]
    /\ IF opt.nit + 1 >= n_iter
       THEN pc' = "DONE" /\ res' = opt.nit + 1
       ELSE pc' = pc /\ res' = res
    /\ UNCHANGED <<netBlobs, netShape, tinputs, netData, layers, img_style,
                   img_content, length, n_iter, orig_dim, gram_scale, G_style, F_content,
                   img0, data_bounds, fn, rp, rs>>

\* convergence at the iterate: minimize() returns, style.py:270-271
OptConverge ==
    /\ pc = "OPTIMIZE"
    /\ opt.nfev >= 1
    /\ opt.last = opt.x
    /\ pc' = "DONE"
    /\ res' = opt.nit
    /\ UNCHANGED <<netBlobs, netShape, tinputs, netData, layers, grad_iter, img_style,
                   img_content, length, n_iter, orig_dim, gram_scale, G_style, F_content,
                   img0, data_bounds, opt, hist, fn, rp, rs>>

\* the line search fails at its trial point: the iterate before it is the
\* result, and minimize() returns
OptLineSearchFails ==
    /\ pc = "OPTIMIZE"
    /\ opt.nfev >= 2
    /\ opt.last # opt.x
    /\ pc' = "DONE"
    /\ res' = opt.nit
    /\ UNCHANGED <<netBlobs, netShape, tinputs, netData, layers, grad_iter, img_style,
                   img_content, length, n_iter, orig_dim, gram_scale, G_style, F_content,
                   img0, data_bounds, opt, hist, fn, rp, rs>>

(***************************************************************************)
(* Specifications.                                                         *)
(***************************************************************************)
Init == XferInit /\ FnIdle /\ RpIdle /\ RsIdle

Next ==
    \/ Construct
    \/ Call
    \/ RescaleStyle
    \/ RescaleContent
    \/ BuildStyleTarget
    \/ BuildContentTarget
    \/ Seed
    \/ Bound
    \/ OptEvaluate
    \/ OptNewX
    \/ OptConverge
    \/ OptLineSearchFails

Spec == Init /\ [][Next]_vars

\* style_optfn on its own
InitOptfn == XferIdle /\ FnInit /\ RpIdle /\ RsIdle
NextOptfn == OptfnBegin \/ OptfnAccumulate \/ OptfnBackward \/ OptfnReturn
SpecOptfn == InitOptfn /\ [][NextOptfn]_vars

\* _compute_reprs on its own
InitReprs == XferIdle /\ FnIdle /\ RpInit /\ RsIdle
NextReprs == ApplyComputeReprs
SpecReprs == InitReprs /\ [][NextReprs]_vars

\* the rescale factor on its own
InitRescale == XferIdle /\ FnIdle /\ RpIdle /\ RsInit
NextRescale == ComputeStyleRescale
SpecRescale == InitRescale /\ [][NextRescale]_vars

(***************************************************************************)
(* Properties.                                                             *)
(***************************************************************************)
IsPrefix(s, t) == Len(s) <= Len(t) /\ \A i \in 1..Len(s) : s[i] = t[i]

\* F . F^T of the style image's activation matrix at a layer
StyleGramRaw(layer) ==
    LET F == Reshape2(BlobData(layer, preprocess(img_style, _rescale_net(img_style, netShape))))
    IN  MatMul(F, Transpose(F))

\* C1: when the optimizer is invoked, every style target Gram matrix equals
\* (content pixel count / style pixel count) * F . F^T of the style image's
\* activation matrix F at that layer (the equation is cross-multiplied by the
\* style pixel count).
C1_StyleTargetsScaled ==
    pc = "OPTIMIZE" =>
        \A layer \in DOMAIN G_style :
            \A i \in 1..Rows(G_style[layer]) : \A j \in 1..Cols(G_style[layer]) :
                G_style[layer][i][j] * ImageSize(img_style)
                    = ImageSize(img_content) * StyleGramRaw(layer)[i][j]

\* C2, as claimed: _compute_reprs returns an empty style mapping whenever
\* layers_style is empty and an empty content mapping whenever layers_content
\* is empty.
C2_EmptyWhenEmpty ==
    rp.done =>
        /\ (rp.layers_style = {} => rp.out.repr_s = <<>>)
        /\ (rp.layers_content = {} => rp.out.repr_c = <<>>)

\* C2, amended: _compute_reprs returns a style mapping whose keys are
\* layers_style (empty whenever layers_style is empty) and a content mapping
\* whose keys are the union of layers_style and layers_content, so the content
\* mapping is empty exactly when both sets are empty; with both sets empty it
\* returns two empty mappings.
C2_ContentKeysAreUnion ==
    rp.done =>
        /\ ~rp.out.err
        /\ DOMAIN rp.out.repr_s = rp.layers_style
        /\ (rp.layers_style = {} => rp.out.repr_s = <<>>)
        /\ DOMAIN rp.out.repr_c = rp.layers_style \cup rp.layers_content
        /\ (rp.out.repr_c = <<>> <=> (rp.layers_style = {} /\ rp.layers_content = {}))

\* C2 witness: _compute_reprs has run with style layers and no content layer.
C2_Witness == rp.done /\ rp.layers_style # {} /\ rp.layers_content = {}

\* C3, as claimed: the factor applied to the style image leaves the scaled
\* shorter side at least orig_dim * 1.2 and the scaled longer side at most
\* length.
C3_NeitherViolated ==
    rs.done =>
        LET M == Max(rs.img.h, rs.img.w)
            m == Min(rs.img.h, rs.img.w)
        IN  /\ rs.factor[1] * m * STYLE_SCALE_DEN >= rs.orig_dim * STYLE_SCALE_NUM * rs.factor[2]
            /\ rs.factor[1] * M <= rs.length * rs.factor[2]

\* C3, amended: the factor applied to the style image leaves the scaled
\* shorter side at least orig_dim * 1.2 and the scaled longer side at least
\* length * 1.2 (so above length), one of the two with equality.
C3_BothLowerBounds ==
    rs.done =>
        LET M == Max(rs.img.h, rs.img.w)
            m == Min(rs.img.h, rs.img.w)
            shortN == rs.factor[1] * m * STYLE_SCALE_DEN
            shortB == rs.orig_dim * STYLE_SCALE_NUM * rs.factor[2]
            longN == rs.factor[1] * M * STYLE_SCALE_DEN
            longB == rs.length * STYLE_SCALE_NUM * rs.factor[2]
        IN  /\ shortN >= shortB
            /\ longN >= longB
            /\ (shortN = shortB \/ longN = longB)
            /\ rs.factor[1] * M > rs.length * rs.factor[2]

\* C3 witness: the factor of a non-square style image has been computed, in a
\* case where the orig_dim term is the larger one.
C3_Witness ==
    /\ rs.done
    /\ rs.img.h # rs.img.w
    /\ rs.factor[1] * Max(rs.img.h, rs.img.w) * STYLE_SCALE_DEN
          > rs.length * STYLE_SCALE_NUM * rs.factor[2]

\* C4: the bounds list handed to the optimizer has one pair per scalar of the
\* flattened initial image, in three equal contiguous blocks in channel order,
\* every pair of block k being (data_min[k], data_min[k] + raw_scale): the pair
\* at a flat position is that of the channel the channel-major flattening
\* puts there.
C4_BoundsMatchFlattening ==
    pc \in {"OPTIMIZE", "DONE"} =>
        LET blk == img0.h * img0.w
        IN  /\ Len(data_bounds) = ArraySize(img0)
            /\ Len(data_bounds) = 3 * blk
            /\ \A i \in 1..Len(data_bounds) :
                   LET k == ((i - 1) \div blk) + 1
                   IN  data_bounds[i] = <<-MeanData[k], -MeanData[k] + RAW_SCALE>>

\* C4 witness: the optimizer runs on an image of more than one pixel.
C4_Witness == pc = "OPTIMIZE" /\ img0.h * img0.w > 1 /\ opt.nfev > 0

\* C5: when transfer_style has returned, the network input buffer, which
\* get_generated reads, holds the final image the optimizer reports as its
\* result.
C5_OutputIsResult ==
    pc = "DONE" => get_generated = deprocess(opt.x)

\* C6: transfer_style runs its phases in the order rescale style, rescale
\* content, build style target, build content target, seed, bound, optimize;
\* when the optimizer is invoked the network input has the rescaled content
\* image's shape after exactly two reshapes, and every objective evaluation
\* reshapes the candidate to that shape.
PhaseOrder ==
    <<"INIT", "RESCALE_STYLE", "RESCALE_CONTENT", "BUILD_STYLE_TARGET",
      "BUILD_CONTENT_TARGET", "SEED", "BOUND", "OPTIMIZE">>

C6_PhasesAndShape ==
    /\ IsPrefix(hist.phases, PhaseOrder)
    /\ pc \in {"OPTIMIZE", "DONE"} =>
          /\ netShape = <<1, 3, img_content.h, img_content.w>>
          /\ hist.rescales = 2
          /\ hist.reshapes \subseteq {<<3, img_content.h, img_content.w>>}
          /\ (pc = "DONE" => hist.phases = PhaseOrder)

\* C6 witness: a transfer whose rescaled style and content images differ in
\* size has evaluated the objective and returned.
C6_Witness ==
    /\ pc = "DONE"
    /\ hist.reshapes # {}
    /\ <<img_style.h, img_style.w>> # <<img_content.h, img_content.w>>

UnknownWeightedLayer == \E l \in WeightKeys : l \notin SeqToSet(netBlobs)

\* C7, as claimed: a weights configuration naming a layer the network lacks is
\* rejected with a fatal error at construction, before any forward pass, and
\* is never accepted with the layer dropped.
C7_RejectedAtConstruction ==
    (UnknownWeightedLayer /\ pc # "new") => (pc = "fatal" /\ hist.forwards = 0)

\* C7, amended: a weights configuration naming a layer the network lacks is
\* accepted by the constructor, which drops the layer from self.layers; every
\* transfer_style call then ends in a fatal error raised by the first
\* _compute_reprs that asks for the layer, after that call's forward pass and
\* before the candidate is seeded or any optimizer evaluation is made.
C7_RejectedInComputeReprs ==
    /\ (UnknownWeightedLayer /\ pc # "new") =>
          /\ layers = SelectSeq(netBlobs, LAMBDA b : b \in WeightKeys)
          /\ Len(layers) < Cardinality(WeightKeys)
          /\ pc \notin {"SEED", "BOUND", "OPTIMIZE", "DONE"}
          /\ opt.nfev = 0
          /\ (pc = "fatal" => hist.forwards >= 1)
    /\ pc = "fatal" => UnknownWeightedLayer

\* C7 witness: transfer_style has failed on a network lacking a weighted layer.
C7_Witness == UnknownWeightedLayer /\ pc = "fatal"

\* the log of one evaluation over a stack: per layer, last first, the
\* contributions and then backward to the preceding layer (None at the first)
ExpectedLog(lays) ==
    [j \in 1..(2 * Len(lays)) |->
        LET k == Len(lays) - ((j - 1) \div 2)
        IN  IF j % 2 = 1
            THEN [op |-> "add", layer |-> lays[k], end |-> NoLayer]
            ELSE [op |-> "backward", layer |-> lays[k],
                  end |-> IF k = 1 THEN NoLayer ELSE lays[k - 1]]]

\* C8: one evaluation of style_optfn visits every layer of the stack exactly
\* once, last layer first; at each layer the contributions are added before
\* backward is invoked from it; backward ends at the preceding layer of the
\* stack, and at None exactly once, for the first layer, after which the
\* returned gradient is the flattened input-space gradient.
C8_ReverseTraversal ==
    fn.on =>
        /\ IsPrefix(fn.log, ExpectedLog(fn.layers))
        /\ (fn.pc = "ret" \/ (fn.pc = "idle" /\ fn.runs > 0)) =>
              /\ fn.log = ExpectedLog(fn.layers)
              /\ Cardinality({j \in 1..Len(fn.log) :
                                 fn.log[j].op = "backward" /\ fn.log[j].end = NoLayer}) = 1
              /\ \A l \in SeqToSet(fn.layers) :
                     Cardinality({j \in 1..Len(fn.log) :
                                     fn.log[j].op = "add" /\ fn.log[j].layer = l}) = 1
        /\ (fn.pc = "idle" /\ fn.runs > 0) =>
              /\ fn.ret.grad = Flatten(fn.dataDiff)
              /\ Len(fn.ret.grad) = ArraySize(fn.data)

\* C8 witness: an evaluation over a stack of at least two layers has returned.
C8_Witness == fn.on /\ fn.pc = "idle" /\ fn.runs > 0 /\ Len(fn.layers) >= 2

\* The evaluation at fn.x computed from the arguments alone, with no gradient
\* buffer read: RefBuf is layer k's buffer after its contributions, RefIncoming
\* what is propagated into it from layer k + 1 (zero for the last layer).
RefReprs(f) ==
    _compute_reprs([c |-> FnShape.c, h |-> FnShape.h, w |-> FnShape.w, px |-> f.x],
                   VGGBlobs, DOMAIN f.weights.style, DOMAIN f.weights.content, 1)

\* (each CHOOSE over a one-element set evaluates its argument once)
RECURSIVE RefBuf(_, _, _)
RefIncoming(f, R, k) ==
    IF k = Len(f.layers) THEN TZero(2, FnShape.h, FnShape.w)
    ELSE CHOOSE t \in {BackwardTo(f.layers[k + 1], f.layers[k], later) :
                          later \in {RefBuf(f, R, k + 1)}} : TRUE

RefBuf(f, R, k) ==
    CHOOSE t \in {Contribution(f.layers[k], inc, R.repr_c, R.repr_s,
                               f.reprs, f.weights, f.ratio).buf :
                     inc \in {RefIncoming(f, R, k)}} : TRUE

RECURSIVE RefLoss(_, _, _)
RefLoss(f, R, k) ==
    IF k = 0 THEN RZero
    ELSE CHOOSE q \in {RAdd(before, Contribution(f.layers[k], inc, R.repr_c, R.repr_s,
                                                 f.reprs, f.weights, f.ratio).loss) :
                          before \in {RefLoss(f, R, k - 1)},
                          inc \in {RefIncoming(f, R, k)}} : TRUE

\* C9: the loss and gradient style_optfn returns are those determined by x,
\* the weights, the layers, the targets and the ratio alone, whatever the
\* gradient buffers held when the evaluation began; and when a layer's
\* contributions are added its buffer holds only what was propagated from the
\* later layer (zero for the last layer).
C9_IndependentOfStaleBuffers ==
    fn.on =>
        \A R \in {RefReprs(fn)} :
            /\ fn.pc = "accum" =>
                  fn.diff[Visited(fn.layers, fn.i)] = RefIncoming(fn, R, Len(fn.layers) - fn.i)
            /\ (fn.pc = "idle" /\ fn.runs > 0) =>
                  /\ fn.ret.loss = RefLoss(fn, R, Len(fn.layers))
                  /\ \A first \in {RefBuf(fn, R, 1)} :
                         fn.ret.grad = Flatten(BackwardTo(fn.layers[1], NoLayer, first))

\* C9 witness: an evaluation that began with non-zero gradient buffers has
\* returned a non-zero gradient.
C9_Witness ==
    /\ fn.on /\ fn.pc = "idle" /\ fn.runs > 0 /\ fn.stale
    /\ \E k \in 1..Len(fn.ret.grad) : fn.ret.grad[k] # RZero

\* C10: the iteration number the progress callback reports during a call never
\* exceeds the call's n_iter, and when the call returns grad_iter equals the
\* iteration count the call returns.
C10_CounterMatchesCall ==
    /\ hist.reported <= n_iter
    /\ pc = "DONE" => grad_iter = res

====
